---- MODULE Spec2Model ----
(***************************************************************************)
(* Conversions between state vectors, classical orbital elements and       *)
(* modified equinoctial elements (poliastro.core.elements).                *)
(*                                                                         *)
(* Numbers.  Every float of the program is modelled by an exact value      *)
(* <<n, d>>:                                                               *)
(*    d > 0   the rational n/d in lowest terms,                            *)
(*    d = 0   an IEEE special: <<0,0>> NaN, <<1,0>> +inf, <<-1,0>> -inf,   *)
(*    d = -1  OffGrid: a finite real the exact arithmetic cannot write     *)
(*            down (the square root of a non-square, an angle that is not  *)
(*            a multiple of a quarter turn, tan at its pole).              *)
(* Angles are numbers counted in quarter turns: <<1,1>> is pi/2, <<4,1>>   *)
(* is 2 pi.  The inputs are drawn so that every value the program computes *)
(* from them is exact (no OffGrid value is ever returned by rv2coe).       *)
(*                                                                         *)
(* Floats.  On the inputs drawn (small integers) the float operations of   *)
(* rv2coe are exact, so its float result is the exact one, but for the     *)
(* sign of a zero, which the rationals do not keep: where arctan2 is given *)
(* two zeros the model takes every outcome IEEE-754 allows.  A result of   *)
(* coe2rv is exact up to rounding only (cos(pi/2) is 6e-17 as a float); a  *)
(* state vector carries the flag exact, and for one that is not, rv2coe    *)
(* may return 2 pi where the exact angle is 0 (a negative residue wrapped  *)
(* by the modulo).  One residue decides more than that: the float pi is    *)
(* below pi, so that the float sin or cos is of the order of 1e-16 where   *)
(* the exact one is 0, and so is a component of coe2rv's result where the  *)
(* exact one is 0; at inc = pi the z components left in this way give the  *)
(* node its direction.  A state vector carries these components as dr and  *)
(* dv, in units of sin(np.pi) = 1.2246e-16 and to first order in it; where *)
(* the exact component is not 0 the float is the exact value up to         *)
(* relative rounding, and dr, dv are 0.                                    *)
(*                                                                         *)
(* Compilation.  Every function is decorated with jit of ._jit, which is   *)
(* numba's compiler where numba is installed and the identity where it is  *)
(* not.  Compiled, a division of a scalar by a zero scalar raises          *)
(* ZeroDivisionError; not compiled, it gives inf or NaN like the division  *)
(* of an array.  Where rv2coe divides a scalar by zero the model takes     *)
(* both outcomes.                                                          *)
(***************************************************************************)
EXTENDS Integers, Sequences, FiniteSets, TLC

\* ------------------------------------------------------------------ bounds
MaxCoord == 1
MaxK == 2
MaxCalls == 2

\* ------------------------------------------------------- exact arithmetic
RECURSIVE GCD(_, _)
GCD(a, b) == IF b = 0 THEN a ELSE GCD(b, a % b)

AbsInt(x) == IF x < 0 THEN -x ELSE x

SgnInt(x) == IF x > 0 THEN 1 ELSE IF x < 0 THEN -1 ELSE 0

Rat(n, d) ==
    LET s == IF d < 0 THEN -1 ELSE 1
        g == GCD(AbsInt(n), AbsInt(d))
    IN <<(s * n) \div g, (s * d) \div g>>

Num(n) == <<n, 1>>
Zero == <<0, 1>>
One == <<1, 1>>
NaN == <<0, 0>>
PosInf == <<1, 0>>
NegInf == <<-1, 0>>
OffGrid == <<0, -1>>

IsOff(a) == a[2] = -1
IsNaN(a) == a = NaN
IsInf(a) == a[2] = 0 /\ a[1] # 0
IsFin(a) == a[2] > 0
IsZero(a) == a = Zero
Sign(a) == SgnInt(a[1])

Neg(a) == IF IsFin(a) \/ IsInf(a) THEN <<-a[1], a[2]>> ELSE a

Add(a, b) ==
    IF IsOff(a) \/ IsOff(b) THEN OffGrid
    ELSE IF IsNaN(a) \/ IsNaN(b) THEN NaN
    ELSE IF IsInf(a) /\ IsInf(b) THEN (IF a = b THEN a ELSE NaN)
    ELSE IF IsInf(a) THEN a
    ELSE IF IsInf(b) THEN b
    ELSE Rat(a[1] * b[2] + b[1] * a[2], a[2] * b[2])

Sub(a, b) == Add(a, Neg(b))

Mul(a, b) ==
    IF IsOff(a) \/ IsOff(b) THEN OffGrid
    ELSE IF IsNaN(a) \/ IsNaN(b) THEN NaN
    ELSE IF IsInf(a) \/ IsInf(b)
         THEN (IF Sign(a) * Sign(b) = 0 THEN NaN
               ELSE <<Sign(a) * Sign(b), 0>>)
    ELSE Rat(a[1] * b[1], a[2] * b[2])

\* Float division under numpy: x/0 is +-inf, 0/0 is NaN.
Div(a, b) ==
    IF IsOff(a) \/ IsOff(b) THEN OffGrid
    ELSE IF IsNaN(a) \/ IsNaN(b) THEN NaN
    ELSE IF IsInf(b) THEN (IF IsInf(a) THEN NaN ELSE Zero)
    ELSE IF IsInf(a) THEN (IF Sign(b) < 0 THEN Neg(a) ELSE a)
    ELSE IF IsZero(b) THEN (IF IsZero(a) THEN NaN ELSE <<Sign(a), 0>>)
    ELSE Rat(a[1] * b[2], a[2] * b[1])

\* an/ad < bn/bd for naturals an, bn and positive ad, bd, without products
\* (the default tolerance has a denominator of 10^8).
RECURSIVE LessPos(_, _, _, _)
LessPos(an, ad, bn, bd) ==
    LET qa == an \div ad
        qb == bn \div bd
        ra == an % ad
        rb == bn % bd
    IN IF qa # qb THEN qa < qb
       ELSE IF rb = 0 THEN FALSE
       ELSE IF ra = 0 THEN TRUE
       ELSE LessPos(bd, rb, ad, ra)

\* The float comparison a < b: false whenever a NaN is involved.
Less(a, b) ==
    IF IsOff(a) \/ IsOff(b) \/ IsNaN(a) \/ IsNaN(b) THEN FALSE
    ELSE IF a = b THEN FALSE
    ELSE IF IsInf(a) THEN a = NegInf
    ELSE IF IsInf(b) THEN b = PosInf
    ELSE IF a[1] < 0 /\ b[1] >= 0 THEN TRUE
    ELSE IF a[1] >= 0 /\ b[1] < 0 THEN FALSE
    ELSE IF a[1] >= 0 THEN LessPos(a[1], a[2], b[1], b[2])
    ELSE LessPos(-b[1], b[2], -a[1], a[2])

LessEq(a, b) == Less(a, b) \/ (a = b /\ ~IsNaN(a) /\ ~IsOff(a))

Abs(a) == IF IsFin(a) \/ IsInf(a) THEN <<AbsInt(a[1]), a[2]>> ELSE a

RECURSIVE ISqrtFrom(_, _)
ISqrtFrom(n, i) == IF i * i >= n THEN i ELSE ISqrtFrom(n, i + 1)

ISqrt(n) == ISqrtFrom(n, 0)

IsSquare(n) == n >= 0 /\ ISqrt(n) * ISqrt(n) = n

\* sqrt: exact on squares of rationals, NaN below zero.
Sqrt(a) ==
    IF IsOff(a) THEN OffGrid
    ELSE IF IsNaN(a) \/ a = NegInf THEN NaN
    ELSE IF a = PosInf THEN PosInf
    ELSE IF a[1] < 0 THEN NaN
    ELSE IF IsSquare(a[1]) /\ IsSquare(a[2]) THEN <<ISqrt(a[1]), ISqrt(a[2])>>
    ELSE OffGrid

\* Floor of a finite rational.
Floor(a) == IF a[1] >= 0 THEN a[1] \div a[2] ELSE -((-a[1] + a[2] - 1) \div a[2])

\* ------------------------------------------------------------------ angles
\* numpy cos and sin at a multiple of a quarter turn (exact value; the float
\* result differs from it by rounding only).
Cos(a) ==
    IF IsOff(a) THEN OffGrid
    ELSE IF ~IsFin(a) THEN NaN
    ELSE IF a[2] # 1 THEN OffGrid
    ELSE Num(<<1, 0, -1, 0>>[(a[1] % 4) + 1])

Sin(a) ==
    IF IsOff(a) THEN OffGrid
    ELSE IF ~IsFin(a) THEN NaN
    ELSE IF a[2] # 1 THEN OffGrid
    ELSE Num(<<0, 1, 0, -1>>[(a[1] % 4) + 1])

\* What the float cos and sin are where the exact ones are 0, at a float
\* multiple of a quarter turn, in units of sin(np.pi) = 1.2246e-16: the
\* float q * (np.pi / 2) is below q * (pi / 2) by q/2 units, so that
\* cos(np.pi / 2) is 1/2, sin(np.pi) is 1, cos(3 * np.pi / 2) is -3/2 and
\* sin(0.0) is 0.  Where the exact value is 1 or -1 so is the float, and the
\* residue is 0.
CosResidue(a) == Mul(Sin(a), Div(a, Num(2)))

SinResidue(a) == Mul(Neg(Cos(a)), Div(a, Num(2)))

\* numpy tan at a multiple of an eighth turn.  At an odd multiple of pi/2 the
\* real tangent has a pole and the float one is a huge finite number
\* (1.6e16): OffGrid.
Tan(a) ==
    IF IsOff(a) THEN OffGrid
    ELSE IF ~IsFin(a) THEN NaN
    ELSE IF a[2] = 1 THEN (IF a[1] % 2 = 0 THEN Zero ELSE OffGrid)
    ELSE IF a[2] = 2 THEN Num(<<1, -1>>[((a[1] % 4) \div 2) + 1])
    ELSE OffGrid

\* numpy arccos, in quarter turns: [0, pi] on [-1, 1], NaN outside.
ArcCos(x) ==
    IF IsOff(x) THEN OffGrid
    ELSE IF ~IsFin(x) THEN NaN
    ELSE IF x = One THEN Zero
    ELSE IF x = Zero THEN One
    ELSE IF x = Num(-1) THEN Num(2)
    ELSE IF Less(One, x) \/ Less(x, Num(-1)) THEN NaN
    ELSE OffGrid

\* What numpy arctan2 can return when both arguments are zero, in quarter
\* turns.  IEEE-754: arctan2(+-0, +0) = +-0 and arctan2(+-0, -0) = +-pi.  The
\* exact arithmetic does not keep the sign of a zero (0 * h_z is -0.0 for a
\* negative h_z), so the outcome is one of these.
ZeroAngles == {0, 2, -2}

\* numpy arctan2(y, x), in quarter turns, in [-pi, pi].  z is the outcome at
\* (0, 0); on the negative x axis the sign of the zero y decides between pi
\* and -pi in the same way.
Atan2(y, x, z) ==
    IF IsOff(y) \/ IsOff(x) THEN OffGrid
    ELSE IF IsNaN(y) \/ IsNaN(x) THEN NaN
    ELSE IF IsInf(y) /\ IsInf(x) THEN OffGrid
    ELSE IF IsInf(y) THEN Num(Sign(y))
    ELSE IF IsInf(x) THEN (IF x = PosInf THEN Zero
                           ELSE IF Sign(y) < 0 \/ (Sign(y) = 0 /\ z < 0)
                                THEN Num(-2) ELSE Num(2))
    ELSE IF IsZero(y) /\ IsZero(x) THEN Num(z)
    ELSE IF IsZero(y) THEN (IF Sign(x) > 0 THEN Zero
                            ELSE IF z < 0 THEN Num(-2) ELSE Num(2))
    ELSE IF IsZero(x) THEN Num(Sign(y))
    ELSE OffGrid

\* angle % (2 * np.pi): the remainder takes the sign of the divisor.
Mod2Pi(a) ==
    IF IsOff(a) THEN OffGrid
    ELSE IF ~IsFin(a) THEN NaN
    ELSE Sub(a, Num(4 * Floor(Div(a, Num(4)))))

\* The values np.arctan2(y, x) % (2 * np.pi) can take.  For arguments that are
\* exact floats it is the wrapped arctan2, with every outcome of ZeroAngles
\* where a zero's sign decides.  For arguments known up to rounding, an
\* angle of 0 on the positive x axis may be computed as a tiny negative one,
\* which the modulo lifts to 2 pi itself (-1e-17 % (2 * np.pi) == 2 * np.pi).
Arctan2Mod(y, x, exact) ==
    {Mod2Pi(Atan2(y, x, z)) : z \in ZeroAngles}
        \cup (IF ~exact /\ IsZero(y) /\ Less(Zero, x) THEN {Num(4)} ELSE {})

\* The least rational above the float np.pi among those TLC's integers can
\* write: np.pi lies between the neighbouring convergents 817696623/260280919
\* and 1881244168/598818617 of its continued fraction, and every rational
\* strictly between the two has a numerator of 2698940791 or more.
PiAbove == <<1881244168, 598818617>>

\* The float comparison angle < t, the angle a in quarter turns and t in
\* radians: a * np.pi / 2 < t, which for a > 0 is np.pi < 2 * t / a, and
\* that is PiAbove <= 2 * t / a.
RadLess(a, t) ==
    IF IsOff(a) \/ IsOff(t) \/ IsNaN(a) \/ IsNaN(t) THEN FALSE
    ELSE IF IsZero(a) THEN Less(Zero, t)
    ELSE IF IsInf(a) \/ IsInf(t) THEN Less(a, t)
    ELSE IF Less(Zero, a) THEN LessEq(PiAbove, Div(Mul(Num(2), t), a))
    ELSE Less(Div(Mul(Num(2), t), a), PiAbove)

\* ----------------------------------------------------------------- vectors
ZeroVec == <<Zero, Zero, Zero>>

IntVec(x, y, z) == <<Num(x), Num(y), Num(z)>>

\* a.dot(b)
Dot(a, b) == Add(Add(Mul(a[1], b[1]), Mul(a[2], b[2])), Mul(a[3], b[3]))

\* poliastro.core.util.cross: the right-handed cross product.
cross(a, b) ==
    << Sub(Mul(a[2], b[3]), Mul(a[3], b[2])),
       Sub(Mul(a[3], b[1]), Mul(a[1], b[3])),
       Sub(Mul(a[1], b[2]), Mul(a[2], b[1])) >>

\* poliastro.core.util.norm: the Euclidean length.
norm(a) == Sqrt(Dot(a, a))

Scale(s, a) == <<Mul(s, a[1]), Mul(s, a[2]), Mul(s, a[3])>>

VAdd(a, b) == <<Add(a[1], b[1]), Add(a[2], b[2]), Add(a[3], b[3])>>

VSub(a, b) == <<Sub(a[1], b[1]), Sub(a[2], b[2]), Sub(a[3], b[3])>>

VDiv(a, s) == <<Div(a[1], s), Div(a[2], s), Div(a[3], s)>>

VecFin(a) == IsFin(a[1]) /\ IsFin(a[2]) /\ IsFin(a[3])

\* An entry of a rotation matrix is a pair: its exact value, and the residue
\* of its float where the exact value is 0 (cos(np.pi / 2) is 6.1e-17, and
\* the zeros of np.eye are zeros).
EntryNeg(e) == <<Neg(e[1]), Neg(e[2])>>

\* The float product of a matrix entry and a vector component: a float that
\* is tiny but not 0 carries an infinite component to an infinity of the
\* product's sign, where a true 0 makes a NaN.
EntryMul(e, x) ==
    IF e[1] = Zero /\ IsInf(x) /\ IsFin(e[2]) /\ e[2] # Zero
      THEN <<Sign(e[2]) * Sign(x), 0>>
    ELSE Mul(e[1], x)

RowDot(row, vec) ==
    Add(Add(EntryMul(row[1], vec[1]), EntryMul(row[2], vec[2])),
        EntryMul(row[3], vec[3]))

\* The rotation matrix about a principal axis (0 = x, 1 = y, 2 = z): c and s
\* its cosine and sine entries, one its entry on the axis, zeros elsewhere.
RotMatrix(c, s, one, axis) ==
    LET o == <<one, Zero>>
        z == <<Zero, Zero>>
    IN IF axis = 0
         THEN << <<o, z, z>>, <<z, c, EntryNeg(s)>>, <<z, s, c>> >>
       ELSE IF axis = 1
         THEN << <<c, z, s>>, <<z, o, z>>, <<EntryNeg(s), z, c>> >>
       ELSE << <<c, EntryNeg(s), z>>, <<s, c, z>>, <<z, z, o>> >>

\* The matrix applied to the vector, as a matrix product: every entry takes
\* part, so that one NaN or infinite component reaches the whole result.
Turn(vec, c, s, one, axis) ==
    LET rot == RotMatrix(c, s, one, axis)
    IN <<RowDot(rot[1], vec), RowDot(rot[2], vec), RowDot(rot[3], vec)>>

\* The float cos and sin of the angle as matrix entries.
CosEntry(theta) == <<Cos(theta), CosResidue(theta)>>

SinEntry(theta) == <<Sin(theta), SinResidue(theta)>>

\* Rotation of the vector by theta about a principal axis, counter-clockwise
\* positive, right-handed.
rotate(vec, theta, axis) ==
    Turn(vec, CosEntry(theta), SinEntry(theta), One, axis)

\* The residue d of a float vector, kept where the exact component is 0.
Mask(vec, d) ==
    <<IF vec[1] = Zero THEN d[1] ELSE Zero,
      IF vec[2] = Zero THEN d[2] ELSE Zero,
      IF vec[3] = Zero THEN d[3] ELSE Zero>>

\* The residue of the float result of rotate, for a float vector of exact
\* value vec and residue d: the exact matrix on d, and the residues of the
\* float cos and sin on vec.
rotateResidue(vec, d, theta, axis) ==
    CHOOSE out \in
        {Mask(rotate(w[1], theta, axis),
              VAdd(Turn(w[2], CosEntry(theta), SinEntry(theta), One, axis),
                   Turn(w[1], <<CosResidue(theta), Zero>>,
                        <<SinResidue(theta), Zero>>, Zero, axis)))
            : w \in {<<vec, d>>}} : TRUE

\* poliastro.core.util.transform: the components of the vector in a frame
\* turned by the angle about the axis, which is the vector rotated by the
\* negated angle.  With this convention the calls of coe2rv, with negated
\* angles, carry perifocal vectors into the inertial frame.
transform(vec, angle, axis) == rotate(vec, Neg(angle), axis)

transformResidue(vec, d, angle, axis) == rotateResidue(vec, d, Neg(angle), axis)

\* ------------------------------------------------------------ the program
\* The float a / b for a float a that is d units of sin(np.pi) where its
\* exact value is 0: divided by zero it is an infinity, not 0/0.
ResidueDiv(a, d, b) ==
    IF a = Zero /\ b = Zero /\ IsFin(d) /\ d # Zero
      THEN (IF Less(Zero, d) THEN PosInf ELSE NegInf)
    ELSE Div(a, b)

\* rv_pqw: position and velocity in the perifocal frame.
rv_pqw(k, p, ecc, nu) ==
    LET c == Cos(nu)
        s == Sin(nu)
        top == Scale(p, <<c, s, Mul(Zero, nu)>>)
        res == Scale(p, <<CosResidue(nu), SinResidue(nu), Zero>>)
        den == Add(One, Mul(ecc, c))
        r_pqw == <<ResidueDiv(top[1], res[1], den),
                   ResidueDiv(top[2], res[2], den),
                   ResidueDiv(top[3], res[3], den)>>
        v_pqw == Scale(Sqrt(Div(k, p)), <<Neg(s), Add(ecc, c), Zero>>)
    IN [r |-> r_pqw, v |-> v_pqw]

\* The residues of the floats of rv_pqw: what cos(nu) and sin(nu) leave where
\* the exact component is 0.
rv_pqwResidue(k, p, ecc, nu) ==
    LET c == Cos(nu)
        dc == CosResidue(nu)
        ds == SinResidue(nu)
        exact == rv_pqw(k, p, ecc, nu)
        dr == VDiv(Scale(p, <<dc, ds, Zero>>), Add(One, Mul(ecc, c)))
        dv == Scale(Sqrt(Div(k, p)), <<Neg(ds), dc, Zero>>)
    IN [r |-> Mask(exact.r, dr), v |-> Mask(exact.v, dv)]

Call(on, arg, angle, axis) ==
    CHOOSE c \in {[on |-> on, arg |-> a, angle |-> angle, axis |-> axis,
                   out |-> transform(a, angle, axis)] : a \in {arg}} : TRUE

\* The residue of the result of chained calls of transform, on a float
\* vector of residue d.
RECURSIVE ChainFrom(_, _)
ChainFrom(d, cs) ==
    IF cs = <<>> THEN d
    ELSE ChainFrom(transformResidue(Head(cs).arg, d, Head(cs).angle,
                                    Head(cs).axis), Tail(cs))

ChainResidue(d, cs) ==
    CHOOSE out \in {ChainFrom(w[1], w[2]) : w \in {<<d, cs>>}} : TRUE

\* transform in program order, each with its argument and its result.
coe2rvPositive(k, p, ecc, inc, raan, argp, nu) ==
    LET pqw == rv_pqw(k, p, ecc, nu)
        r1 == Call("r", pqw.r, argp, 2)
        r2 == Call("r", r1.out, inc, 0)
        r3 == Call("r", r2.out, raan, 2)
        v1 == Call("v", pqw.v, argp, 2)
        v2 == Call("v", v1.out, inc, 0)
        v3 == Call("v", v2.out, raan, 2)
        res == rv_pqwResidue(k, p, ecc, nu)
    IN [r |-> r3.out, v |-> v3.out, dr |-> ChainResidue(res.r, <<r1, r2, r3>>),
        dv |-> ChainResidue(res.v, <<v1, v2, v3>>), pqw |-> pqw,
        calls |-> <<r1, r2, r3, v1, v2, v3>>]

coe2rvReversed(k, p, ecc, inc, raan, argp, nu) ==
    LET pqw == rv_pqw(k, p, ecc, nu)
        r1 == Call("r", pqw.r, Neg(raan), 2)
        r2 == Call("r", r1.out, Neg(inc), 0)
        r3 == Call("r", r2.out, Neg(argp), 2)
        v1 == Call("v", pqw.v, Neg(raan), 2)
        v2 == Call("v", v1.out, Neg(inc), 0)
        v3 == Call("v", v2.out, Neg(argp), 2)
        res == rv_pqwResidue(k, p, ecc, nu)
    IN [r |-> r3.out, v |-> v3.out, dr |-> ChainResidue(res.r, <<r1, r2, r3>>),
        dv |-> ChainResidue(res.v, <<v1, v2, v3>>), pqw |-> pqw,
        calls |-> <<r1, r2, r3, v1, v2, v3>>]

coe2rv(k, p, ecc, inc, raan, argp, nu) ==
    LET pqw == rv_pqw(k, p, ecc, nu)
        r1 == Call("r", pqw.r, Neg(argp), 2)
        r2 == Call("r", r1.out, Neg(inc), 0)
        r3 == Call("r", r2.out, Neg(raan), 2)
        v1 == Call("v", pqw.v, Neg(argp), 2)
        v2 == Call("v", v1.out, Neg(inc), 0)
        v3 == Call("v", v2.out, Neg(raan), 2)
        res == rv_pqwResidue(k, p, ecc, nu)
    IN [r |-> r3.out, v |-> v3.out, dr |-> ChainResidue(res.r, <<r1, r2, r3>>),
        dv |-> ChainResidue(res.v, <<v1, v2, v3>>), pqw |-> pqw,
        calls |-> <<r1, r2, r3, v1, v2, v3>>]

\* coe2mee: classical elements to modified equinoctial elements.
coe2meeWrapped(p, ecc, inc, raan, argp, nu) ==
    LET lonper == Add(raan, argp)
        f == Mul(ecc, Cos(lonper))
        g == Mul(ecc, Sin(lonper))
        h == Mul(Tan(Div(inc, Num(2))), Cos(raan))
        k == Mul(Tan(Div(inc, Num(2))), Sin(raan))
        L == Mod2Pi(Add(lonper, nu))
    IN <<p, f, g, h, k, L>>

coe2mee(p, ecc, inc, raan, argp, nu) ==
    LET lonper == Add(raan, argp)
        f == Mul(ecc, Cos(lonper))
        g == Mul(ecc, Sin(lonper))
        h == Mul(Tan(Div(inc, Num(2))), Cos(raan))
        k == Mul(Tan(Div(inc, Num(2))), Sin(raan))
        L == Add(lonper, nu)
    IN <<p, f, g, h, k, L>>

\* tol=1e-8, the default of rv2coe.
TolDen == 100000000
DefaultTol == <<1, TolDen>>

\* p = h.dot(h) / k
SemiLatusPlanar(h, k) == Div(Mul(h[3], h[3]), k)

SemiLatus(h, k) == Div(Dot(h, h), k)

\* inc = np.arccos(h[2] / norm(h))
InclinationGuarded(h) ==
    IF norm(h) = Zero THEN Zero ELSE ArcCos(Div(h[3], norm(h)))

Inclination(h) == ArcCos(Div(h[3], norm(h)))

\* circular = ecc < tol
circularLe(ecc, tol) == LessEq(ecc, tol)

circular(ecc, tol) == Less(ecc, tol)

\* equatorial = abs(inc) < tol
equatorialBothWays(inc, tol) == RadLess(Abs(inc), tol) \/ inc = Num(2)

equatorial(inc, tol) == RadLess(Abs(inc), tol)

\* The if / elif / elif / else of rv2coe.
BranchFirstMatch(equa, circ) ==
    IF equa THEN "equatorial"
    ELSE IF circ THEN "circular"
    ELSE IF equa /\ circ THEN "circular_equatorial"
    ELSE "general"

Branch(equa, circ) ==
    IF equa /\ ~circ THEN "equatorial"
    ELSE IF ~equa /\ circ THEN "circular"
    ELSE IF equa /\ circ THEN "circular_equatorial"
    ELSE "general"

\* e = ((v.dot(v) - k / (norm(r))) * r - r.dot(v) * v) / k
EccVec(k, r, v) ==
    VDiv(VSub(Scale(Sub(Dot(v, v), Div(k, norm(r))), r), Scale(Dot(r, v), v)),
         k)

\* rv2coe: state vector to classical elements: the set of results the code
\* can return (one, unless an arctan2 has several outcomes).  exact: r and v
\* are the floats themselves, not known up to rounding only; dr, dv: what
\* the floats have where r and v are 0, in units of sin(np.pi).  Where the
\* exact n is the zero vector the float n is what dr and dv make it, a
\* vector of the order of 1e-16 along node, and arctan2 sees its direction.  Besides
\* the six returned values a result keeps the intermediate vectors, the two
\* classifications, the branch taken and whether an error was raised: the
\* code raises none itself, and compiled the scalar divisions k / norm(r)
\* and h[2] / norm(h) raise ZeroDivisionError on a zero divisor.
ScalarZeroDivide(r, v) == norm(r) = Zero \/ norm(cross(r, v)) = Zero

Raised ==
    [p |-> NaN, ecc |-> NaN, inc |-> NaN, raan |-> NaN, argp |-> NaN,
     nu |-> NaN, h |-> ZeroVec, n |-> ZeroVec, e |-> ZeroVec,
     node |-> ZeroVec, circular |-> FALSE, equatorial |-> FALSE,
     raised |-> TRUE, branch |-> "none"]

rv2coe(k, r, v, tol, exact, dr, dv) ==
    LET h == cross(r, v)
        dh == Mask(h, VSub(cross(dr, v), cross(dv, r)))
        n0 == VDiv(cross(IntVec(0, 0, 1), h), norm(h))
        n == IF n0 = ZeroVec THEN cross(IntVec(0, 0, 1), dh) ELSE n0
        e == EccVec(k, r, v)
        ecc == norm(e)
        p == SemiLatus(h, k)
        inc == Inclination(h)
        circ == circular(ecc, tol)
        equa == equatorial(inc, tol)
        branch == Branch(equa, circ)
        base == [p |-> p, ecc |-> ecc, inc |-> inc, h |-> h, n |-> n0, e |-> e,
                 node |-> n,
                 circular |-> circ, equatorial |-> equa, branch |-> branch,
                 raised |-> FALSE]
        raans ==
            IF branch \in {"equatorial", "circular_equatorial"} THEN {Zero}
            ELSE Arctan2Mod(n[2], n[1], exact)
        argps ==
            IF branch = "equatorial" THEN Arctan2Mod(e[2], e[1], exact)
            ELSE IF branch \in {"circular", "circular_equatorial"} THEN {Zero}
            ELSE Arctan2Mod(Div(Dot(e, cross(h, n)), norm(h)), Dot(e, n), exact)
        nus ==
            IF branch = "equatorial"
              THEN Arctan2Mod(Div(Dot(h, cross(e, r)), norm(h)), Dot(r, e), exact)
            ELSE IF branch = "circular"
              THEN Arctan2Mod(Div(Dot(r, cross(h, n)), norm(h)), Dot(r, n), exact)
            ELSE IF branch = "circular_equatorial"
              THEN Arctan2Mod(r[2], r[1], exact)
            ELSE Arctan2Mod(Div(Dot(r, cross(h, e)), norm(h)), Dot(r, e), exact)
    IN {base @@ [raan |-> x[1], argp |-> x[2], nu |-> x[3]] :
            x \in raans \X argps \X nus}
          \cup (IF ScalarZeroDivide(r, v) THEN {Raised} ELSE {})

\* -------------------------------------------------------------- the inputs
Coords == (0 - MaxCoord) .. MaxCoord

\* Positions: on a coordinate axis, or the origin.
Positions ==
    {IntVec(a, 0, 0) : a \in Coords} \cup {IntVec(0, a, 0) : a \in Coords}
        \cup {IntVec(0, 0, a) : a \in Coords}

Velocities == {IntVec(a, b, c) : a \in Coords, b \in Coords, c \in Coords}

\* The default tolerance, and two that a computed ecc or inc can equal.
TolSet == {DefaultTol, Zero, <<1, 2>>}

\* Every value rv2coe returns for the input is exact.
Representable(k, r, v, tol) ==
    \A c \in rv2coe(Num(k), r, v, tol, TRUE, ZeroVec, ZeroVec) :
        ~(IsOff(c.p) \/ IsOff(c.ecc) \/ IsOff(c.inc) \/ IsOff(c.raan)
          \/ IsOff(c.argp) \/ IsOff(c.nu))

RvInputs ==
    {[kind |-> "rv", k |-> Num(x[1]), tol |-> x[4], r |-> x[2], v |-> x[3]] :
        x \in {y \in (1 .. MaxK) \X Positions \X Velocities \X TolSet :
                  Representable(y[1], y[2], y[3], y[4])}}

EccSet == {Zero, <<1, 2>>, One, Num(2)}

\* Classical elements on the quarter-turn grid: p = k (so that sqrt(k/p) is
\* exact), ecc >= 0, inc in [0, pi], the other angles in [0, 2 pi).
CoeInputs ==
    {[kind |-> "coe", k |-> Num(x[1]), tol |-> DefaultTol, p |-> Num(x[1]),
      ecc |-> x[2], inc |-> Num(x[3]), raan |-> Num(x[4]), argp |-> Num(x[5]),
      nu |-> Num(x[6])] :
        x \in (1 .. MaxK) \X EccSet \X (0 .. 2) \X (0 .. 3) \X (0 .. 3)
                  \X (0 .. 3)}

\* ---------------------------------------------------------------- the state
VARIABLES
    inp,      \* the input the caller started from
    sv,       \* the state vector at hand (has: whether there is one; exact:
              \* an input, rather than a result of coe2rv; dr, dv:
              \* what its floats have beyond r and v)
    coe,      \* the classical elements at hand
    mee,      \* the last result of coe2mee
    pqw,      \* the last result of rv_pqw
    calls,    \* the calls of transform made by the last coe2rv
    trace     \* the functions called so far, in order

vars == <<inp, sv, coe, mee, pqw, calls, trace>>

NoSv ==
    [has |-> FALSE, exact |-> TRUE, r |-> ZeroVec, v |-> ZeroVec,
     dr |-> ZeroVec, dv |-> ZeroVec]

NoCoe ==
    [has |-> FALSE, p |-> Zero, ecc |-> Zero, inc |-> Zero, raan |-> Zero,
     argp |-> Zero, nu |-> Zero, h |-> ZeroVec, n |-> ZeroVec, e |-> ZeroVec,
     node |-> ZeroVec,
     circular |-> FALSE, equatorial |-> FALSE, raised |-> FALSE,
     branch |-> "none"]

NoMee == [has |-> FALSE, out |-> <<Zero, Zero, Zero, Zero, Zero, Zero>>]

NoPqw == [has |-> FALSE, r |-> ZeroVec, v |-> ZeroVec]

Init ==
    /\ inp \in RvInputs \cup CoeInputs
    /\ sv = IF inp.kind = "rv"
            THEN [NoSv EXCEPT !.has = TRUE, !.r = inp.r, !.v = inp.v]
            ELSE NoSv
    /\ coe = IF inp.kind = "coe"
             THEN [NoCoe EXCEPT !.has = TRUE, !.p = inp.p, !.ecc = inp.ecc,
                                !.inc = inp.inc, !.raan = inp.raan,
                                !.argp = inp.argp, !.nu = inp.nu,
                                !.branch = "input"]
             ELSE NoCoe
    /\ mee = NoMee
    /\ pqw = NoPqw
    /\ calls = <<>>
    /\ trace = <<>>

\* p, ecc, inc, raan, argp, nu = rv2coe(k, r, v, tol), called on an input or
\* on a result of coe2rv; a call that raises returns nothing.
CallRv2coe ==
    /\ sv.has
    /\ Len(trace) < MaxCalls
    /\ \E c \in rv2coe(inp.k, sv.r, sv.v, inp.tol, sv.exact, sv.dr, sv.dv) :
          /\ coe' = [has |-> ~c.raised] @@ c
          /\ trace' = Append(trace, IF c.raised THEN "rv2coe raised"
                                    ELSE "rv2coe")
    /\ UNCHANGED <<inp, sv, mee, pqw, calls>>

\* r, v = coe2rv(k, p, ecc, inc, raan, argp, nu)
CallCoe2rv ==
    /\ coe.has
    /\ Len(trace) < MaxCalls
    /\ \E res \in {coe2rv(inp.k, coe.p, coe.ecc, coe.inc, coe.raan, coe.argp,
                           coe.nu)} :
          /\ sv' = [has |-> TRUE, exact |-> FALSE, r |-> res.r, v |-> res.v,
                    dr |-> res.dr, dv |-> res.dv]
          /\ calls' = res.calls
          /\ pqw' = [has |-> TRUE, r |-> res.pqw.r, v |-> res.pqw.v]
    /\ trace' = Append(trace, "coe2rv")
    /\ UNCHANGED <<inp, coe, mee>>

\* p, f, g, h, k, L = coe2mee(p, ecc, inc, raan, argp, nu)
CallCoe2mee ==
    /\ coe.has
    /\ Len(trace) < MaxCalls
    /\ mee' = [has |-> TRUE,
               out |-> coe2mee(coe.p, coe.ecc, coe.inc, coe.raan, coe.argp,
                               coe.nu)]
    /\ trace' = Append(trace, "coe2mee")
    /\ UNCHANGED <<inp, sv, coe, pqw, calls>>

\* r_pqw, v_pqw = rv_pqw(k, p, ecc, nu)
CallRvPqw ==
    /\ coe.has
    /\ Len(trace) < MaxCalls
    /\ pqw' = [has |-> TRUE] @@ rv_pqw(inp.k, coe.p, coe.ecc, coe.nu)
    /\ trace' = Append(trace, "rv_pqw")
    /\ UNCHANGED <<inp, sv, coe, mee, calls>>

Next == CallRv2coe \/ CallCoe2rv \/ CallCoe2mee \/ CallRvPqw

Spec == Init /\ [][Next]_vars

\* --------------------------------------------------------------- the claims
Last == IF trace = <<>> THEN "none" ELSE trace[Len(trace)]

\* coe holds what the last call, of rv2coe on sv, returned.
FreshCoe == Last = "rv2coe"

\* The arguments of that call are finite.
FiniteCall == VecFin(sv.r) /\ VecFin(sv.v)

NonDegenerate(r, v) == VecFin(r) /\ VecFin(v) /\ cross(r, v) # ZeroVec

\* The angular momentum r x v points along -z: retrograde equatorial.
RetrogradeEquatorial(r, v) ==
    /\ VecFin(r) /\ VecFin(v)
    /\ cross(r, v)[1] = Zero /\ cross(r, v)[2] = Zero
    /\ Less(cross(r, v)[3], Zero)

\* The angular momentum of the call, as the floats have it, is along -z.
AlongMinusZ ==
    /\ RetrogradeEquatorial(sv.r, sv.v)
    /\ Mask(cross(sv.r, sv.v),
            VSub(cross(sv.dr, sv.v), cross(sv.dv, sv.r))) = ZeroVec

InTurn(a) == LessEq(Zero, a) /\ Less(a, Num(4))

InTurnClosed(a) == LessEq(Zero, a) /\ LessEq(a, Num(4))

InHalfTurn(a) == LessEq(Zero, a) /\ LessEq(a, Num(2))

\* A whole number of quarter turns modulo 2 pi; anything else is left as
\* it is.
Wrap(a) == IF IsFin(a) /\ a[2] = 1 THEN Num(a[1] % 4) ELSE a

\* The point of true anomaly nu is on the conic: its radius
\* p / (1 + ecc cos(nu)) is positive and finite.
OnConic(x) == Less(Zero, Add(One, Mul(x.ecc, Cos(x.nu))))

\* C1: from a non-degenerate state vector (k > 0, r x v # 0), rv2coe with
\* the default tolerance followed by coe2rv gives the state vector back.
C1_RoundTripRv ==
    (/\ inp.kind = "rv" /\ inp.tol = DefaultTol
     /\ NonDegenerate(inp.r, inp.v)
     /\ trace = <<"rv2coe", "coe2rv">>)
        => (sv.r = inp.r /\ sv.v = inp.v)

\* The same round trip, away from the retrograde equatorial orbits.
RoundTripRvNotRetrograde ==
    (/\ inp.kind = "rv" /\ inp.tol = DefaultTol
     /\ NonDegenerate(inp.r, inp.v)
     /\ ~RetrogradeEquatorial(inp.r, inp.v)
     /\ trace = <<"rv2coe", "coe2rv">>)
        => (sv.r = inp.r /\ sv.v = inp.v)

\* What rv2coe(coe2rv(x)) is to return for the elements x: x itself, and
\* near ecc = 0 or inc = 0 the angle fixed at 0 absorbed into the next one.
Expected(x) ==
    IF x.ecc # Zero /\ x.inc # Zero
      THEN <<x.raan, x.argp, x.nu>>
    ELSE IF x.ecc # Zero
      THEN <<Zero, Wrap(Add(x.raan, x.argp)), x.nu>>
    ELSE IF x.inc # Zero
      THEN <<x.raan, Zero, Wrap(Add(x.argp, x.nu))>>
    ELSE <<Zero, Zero, Wrap(Add(Add(x.raan, x.argp), x.nu))>>

\* C2, as claimed: from any valid classical elements (p > 0, ecc >= 0, inc
\* in [0, pi], raan, argp, nu in [0, 2 pi)), coe2rv followed by rv2coe gives
\* the elements back, the angles modulo 2 pi, raan and argp up to the
\* degenerate-case convention when ecc or inc is zero.
C2_RoundTripCoeAnyTuple ==
    (inp.kind = "coe" /\ trace = <<"coe2rv", "rv2coe">>)
        => /\ coe.p = inp.p /\ coe.ecc = inp.ecc /\ coe.inc = inp.inc
           /\ <<Wrap(coe.raan), Wrap(coe.argp), Wrap(coe.nu)>> = Expected(inp)

\* C2, amended: from valid classical elements whose point is on the conic
\* (1 + ecc cos(nu) > 0), coe2rv followed by rv2coe gives the elements back,
\* the angles modulo 2 pi, raan and argp up to the degenerate-case
\* convention when ecc or inc is zero.
C2_RoundTripCoe ==
    (inp.kind = "coe" /\ OnConic(inp) /\ trace = <<"coe2rv", "rv2coe">>)
        => /\ coe.p = inp.p /\ coe.ecc = inp.ecc /\ coe.inc = inp.inc
           /\ <<Wrap(coe.raan), Wrap(coe.argp), Wrap(coe.nu)>> = Expected(inp)

\* An equatorial ellipse: raan comes back as 0, absorbed into argp.
C2_Witness ==
    /\ inp.kind = "coe" /\ OnConic(inp) /\ trace = <<"coe2rv", "rv2coe">>
    /\ inp.ecc = <<1, 2>> /\ inp.inc = Zero
    /\ inp.raan = One /\ inp.argp = One /\ inp.nu = Num(3)
    /\ coe.raan = Zero /\ coe.argp = Num(2) /\ coe.nu = Num(3)

\* Off the conic: ecc = 2 at nu = pi is the state of a circular orbit, and
\* comes back with ecc = 0.
OffConicComesBackCircular ==
    /\ inp.kind = "coe" /\ ~OnConic(inp) /\ trace = <<"coe2rv", "rv2coe">>
    /\ inp.ecc = Num(2) /\ inp.nu = Num(2)
    /\ coe.ecc = Zero /\ coe.branch \in {"circular", "circular_equatorial"}

\* On the parabola's axis: ecc = 1 at nu = pi divides by zero, and nothing
\* comes back.
OffConicComesBackNaN ==
    /\ inp.kind = "coe" /\ ~OnConic(inp) /\ trace = <<"coe2rv", "rv2coe">>
    /\ inp.ecc = One /\ inp.nu = Num(2)
    /\ IsNaN(coe.p) /\ IsNaN(coe.ecc) /\ IsNaN(coe.nu)

\* The round trip at inc = pi: the node and the periapsis come back.
RoundTripAtPi ==
    /\ inp.kind = "coe" /\ trace = <<"coe2rv", "rv2coe">>
    /\ inp.ecc = <<1, 2>> /\ inp.inc = Num(2)
    /\ inp.raan = One /\ inp.argp = One /\ inp.nu = Zero
    /\ sv.r[3] = Zero /\ sv.dr[3] # Zero /\ coe.n = ZeroVec
    /\ coe.inc = Num(2) /\ coe.raan = One /\ coe.argp = One /\ coe.nu = Zero

\* C3, for any input: the raan, argp and nu that rv2coe returns lie in
\* [0, 2 pi), 2 pi excluded, and the inc in [0, pi].
C3_AnglesInRangeAnyInput ==
    FreshCoe =>
        /\ InTurn(coe.raan) /\ InTurn(coe.argp) /\ InTurn(coe.nu)
        /\ InHalfTurn(coe.inc)

\* C3, on the finite inputs with r x v # 0 alone: the raan, argp and nu that
\* rv2coe returns lie in [0, 2 pi), 2 pi excluded, and the inc in [0, pi].
C3_AnglesInHalfOpenTurn ==
    (FreshCoe /\ NonDegenerate(sv.r, sv.v)) =>
        /\ InTurn(coe.raan) /\ InTurn(coe.argp) /\ InTurn(coe.nu)
        /\ InHalfTurn(coe.inc)

\* What does hold there: the closed interval.
AnglesInClosedTurn ==
    (FreshCoe /\ NonDegenerate(sv.r, sv.v)) =>
        /\ InTurnClosed(coe.raan) /\ InTurnClosed(coe.argp)
        /\ InTurnClosed(coe.nu) /\ InHalfTurn(coe.inc)

\* rv2coe returns 2 pi itself, for a state vector that is not degenerate.
Returns2Pi ==
    /\ FreshCoe /\ NonDegenerate(sv.r, sv.v)
    /\ Num(4) \in {coe.raan, coe.argp, coe.nu}

CaseOf(equa, circ) ==
    {b \in {"equatorial", "circular", "circular_equatorial", "general"} :
        \/ b = "equatorial" /\ equa /\ ~circ
        \/ b = "circular" /\ ~equa /\ circ
        \/ b = "circular_equatorial" /\ equa /\ circ
        \/ b = "general" /\ ~equa /\ ~circ}

Wrapped(y, x) == Arctan2Mod(y, x, sv.exact)

\* C4: exactly one of the four cases runs, chosen by (equatorial, circular);
\* raan is 0 in the equatorial cases and atan2(n_y, n_x) mod 2 pi otherwise,
\* argp is 0 in the circular cases, and nu is the angle of its case.
C4_BranchSelection ==
    FreshCoe =>
        LET r == sv.r
            h == coe.h
            n == coe.node
            e == coe.e
            nh == norm(h)
        IN /\ CaseOf(coe.equatorial, coe.circular) = {coe.branch}
           /\ IF coe.equatorial THEN coe.raan = Zero
              ELSE coe.raan \in Wrapped(n[2], n[1])
           /\ coe.circular => coe.argp = Zero
           /\ coe.branch = "equatorial" =>
                /\ coe.argp \in Wrapped(e[2], e[1])
                /\ coe.nu \in Wrapped(Div(Dot(h, cross(e, r)), nh), Dot(r, e))
           /\ coe.branch = "circular" =>
                coe.nu \in Wrapped(Div(Dot(r, cross(h, n)), nh), Dot(r, n))
           /\ coe.branch = "circular_equatorial" =>
                coe.nu \in Wrapped(r[2], r[1])
           /\ coe.branch = "general" =>
                /\ coe.argp \in Wrapped(Div(Dot(e, cross(h, n)), nh), Dot(e, n))
                /\ coe.nu \in Wrapped(Div(Dot(r, cross(h, e)), nh), Dot(r, e))

\* A circular equatorial orbit, a quarter turn from the x axis.
C4_Witness ==
    /\ FreshCoe /\ NonDegenerate(sv.r, sv.v)
    /\ coe.equatorial /\ coe.circular /\ coe.branch = "circular_equatorial"
    /\ coe.raan = Zero /\ coe.argp = Zero /\ coe.nu = One

\* C5: for k > 0 and r x v # 0 the p that rv2coe returns is positive.
C5_SemiLatusPositive ==
    (FreshCoe /\ NonDegenerate(sv.r, sv.v)) => Less(Zero, coe.p)

\* A polar orbit: h has no z component.
C5_Witness ==
    /\ FreshCoe /\ NonDegenerate(sv.r, sv.v)
    /\ coe.h[3] = Zero /\ Less(Zero, coe.p)

CoeFinite ==
    /\ IsFin(coe.p) /\ IsFin(coe.ecc) /\ IsFin(coe.inc) /\ IsFin(coe.raan)
    /\ IsFin(coe.argp) /\ IsFin(coe.nu)

\* The perifocal-to-inertial rotation in closed form (the 3-1-3 matrix of
\* raan, inc, argp).
PerifocalToInertial(w, inc, raan, argp) ==
    LET cO == Cos(raan)
        sO == Sin(raan)
        cw == Cos(argp)
        sw == Sin(argp)
        ci == Cos(inc)
        si == Sin(inc)
        row1 == <<Sub(Mul(cO, cw), Mul(Mul(sO, sw), ci)),
                  Sub(Neg(Mul(cO, sw)), Mul(Mul(sO, cw), ci)),
                  Mul(sO, si)>>
        row2 == <<Add(Mul(sO, cw), Mul(Mul(cO, sw), ci)),
                  Sub(Mul(Mul(cO, cw), ci), Mul(sO, sw)),
                  Neg(Mul(cO, si))>>
        row3 == <<Mul(sw, si), Mul(cw, si), ci>>
    IN <<Dot(row1, w), Dot(row2, w), Dot(row3, w)>>

\* C6: coe2rv takes r and v from rv_pqw and applies transform three times,
\* with (axis, angle) = (2, -argp), (0, -inc), (2, -raan) in this order, to
\* r and to v, each chain on its own vector only.
C6_RotationSequence ==
    Last = "coe2rv" =>
        /\ [r |-> pqw.r, v |-> pqw.v] = rv_pqw(inp.k, coe.p, coe.ecc, coe.nu)
        /\ Len(calls) = 6
        /\ [i \in 1 .. 6 |-> <<calls[i].on, calls[i].axis, calls[i].angle>>]
             = << <<"r", 2, Neg(coe.argp)>>, <<"r", 0, Neg(coe.inc)>>,
                  <<"r", 2, Neg(coe.raan)>>, <<"v", 2, Neg(coe.argp)>>,
                  <<"v", 0, Neg(coe.inc)>>, <<"v", 2, Neg(coe.raan)>> >>
        /\ \A i \in 1 .. 6 :
             calls[i].out = transform(calls[i].arg, calls[i].angle, calls[i].axis)
        /\ calls[1].arg = pqw.r /\ calls[2].arg = calls[1].out
        /\ calls[3].arg = calls[2].out /\ sv.r = calls[3].out
        /\ calls[4].arg = pqw.v /\ calls[5].arg = calls[4].out
        /\ calls[6].arg = calls[5].out /\ sv.v = calls[6].out

\* What the three calls amount to: the perifocal-to-inertial rotation.
Coe2rvIsPerifocalToInertial ==
    (Last = "coe2rv" /\ CoeFinite) =>
        /\ sv.r = PerifocalToInertial(pqw.r, coe.inc, coe.raan, coe.argp)
        /\ sv.v = PerifocalToInertial(pqw.v, coe.inc, coe.raan, coe.argp)

\* Three quarter turns that do not commute, on an eccentric orbit.
C6_Witness ==
    /\ Last = "coe2rv" /\ CoeFinite
    /\ coe.inc = One /\ coe.raan = One /\ coe.argp = Num(2)
    /\ coe.ecc = <<1, 2>> /\ coe.nu = One

\* C7: coe2mee returns (p, f, g, h, k, L) with p unchanged,
\* f = ecc cos(raan + argp), g = ecc sin(raan + argp),
\* h = tan(inc/2) cos(raan), k = tan(inc/2) sin(raan) and L the plain sum
\* raan + argp + nu; an inc of pi is treated like any other.
C7_Coe2meeClosedForm ==
    Last = "coe2mee" =>
        LET o == mee.out
            t == Tan(Div(coe.inc, Num(2)))
        IN /\ Len(o) = 6
           /\ o[1] = coe.p
           /\ o[2] = Mul(coe.ecc, Cos(Add(coe.raan, coe.argp)))
           /\ o[3] = Mul(coe.ecc, Sin(Add(coe.raan, coe.argp)))
           /\ o[4] = Mul(t, Cos(coe.raan))
           /\ o[5] = Mul(t, Sin(coe.raan))
           /\ o[6] = Add(Add(coe.raan, coe.argp), coe.nu)
           /\ CoeFinite =>
                Add(Mul(o[2], o[2]), Mul(o[3], o[3])) = Mul(coe.ecc, coe.ecc)

\* An inc of pi, and an L beyond 2 pi.
C7_Witness ==
    /\ Last = "coe2mee" /\ CoeFinite
    /\ coe.inc = Num(2) /\ coe.ecc = <<1, 2>>
    /\ mee.out[6] = Num(9)

\* rv2coe was called on a finite state vector with r x v = 0.
DegenerateCall ==
    /\ Last \in {"rv2coe", "rv2coe raised"}
    /\ FiniteCall /\ cross(sv.r, sv.v) = ZeroVec

DegenerateRaises ==
    /\ DegenerateCall /\ coe.raised
    /\ sv.r # ZeroVec /\ sv.v # ZeroVec

CircularCases == {"circular", "circular_equatorial"}

EquatorialCases == {"equatorial", "circular_equatorial"}

\* C9: the case is circular iff the computed ecc is strictly below tol and
\* equatorial iff the computed inc is strictly below tol; at ecc = tol, or
\* inc = tol, it is neither.
C9_StrictTolerance ==
    FreshCoe =>
        /\ coe.branch \in CircularCases <=> Less(coe.ecc, inp.tol)
        /\ coe.branch \in EquatorialCases <=> RadLess(Abs(coe.inc), inp.tol)
        /\ coe.ecc = inp.tol => coe.branch \notin CircularCases
        /\ (coe.inc = Zero /\ inp.tol = Zero)
              => coe.branch \notin EquatorialCases

\* The computed ecc equals the tolerance.
C9_Witness ==
    /\ FreshCoe /\ NonDegenerate(sv.r, sv.v)
    /\ coe.ecc = inp.tol /\ inp.tol = <<1, 2>> /\ coe.branch = "equatorial"

\* C10, as claimed: for an angular momentum along -z, equatorial is false
\* and n is zero, raan is 0, and off the circular case argp is 0 too.
C10_RetrogradeZeroAngles ==
    (FreshCoe /\ AlongMinusZ) =>
        /\ coe.inc = Num(2) /\ ~coe.equatorial /\ coe.n = ZeroVec
        /\ coe.raan = Zero
        /\ ~coe.circular => coe.argp = Zero

\* C10, amended: for an angular momentum along -z, equatorial is false and n
\* is zero; raan is arctan2 of two zeros, 0 or pi as their signs decide, and
\* off the circular case so is argp, whatever the direction of e.
C10_RetrogradeNodeLost ==
    (FreshCoe /\ AlongMinusZ) =>
        /\ coe.inc = Num(2) /\ ~coe.equatorial /\ coe.n = ZeroVec
        /\ coe.raan \in {Zero, Num(2)}
        /\ ~coe.circular => coe.argp \in {Zero, Num(2)}

\* Periapsis along the y axis, and an argp of 0.
C10_Witness ==
    /\ FreshCoe /\ AlongMinusZ
    /\ ~coe.circular /\ coe.e[1] = Zero /\ coe.e[2] # Zero
    /\ coe.raan = Zero /\ coe.argp = Zero
====
